---- MODULE Spec2Model ----
(***************************************************************************)
(* trifle.c: single-pass conversion of JSON profiles to resource paths.    *)
(*                                                                         *)
(* Bytes are integers 0..255 and C strings are sequences of bytes.  The    *)
(* run of the program is main() calling process_json() once per document;  *)
(* process_json() is modelled byte by byte, one action per case of its     *)
(* switch.  The documents of a run, the options and the signals the        *)
(* environment delivers are chosen in Init.                                *)
(***************************************************************************)
EXTENDS Integers, Sequences, FiniteSets, TLC

(***************************************************************************)
(* Program constants and the byte values the code names as literals.      *)
(***************************************************************************)
MAXBUF == 4096
ULONG_MAX == -1          \* the all-ones value; only ever compared, never computed with
NUL == 0
TAB == 9
NL == 10
CR == 13
SPACE == 32
QUOTE == 34
HASH == 35
COMMA == 44
DOT == 46
SLASH == 47
COLON == 58
EQUALS == 61
LBRACKET == 91
BACKSLASH == 92
RBRACKET == 93
UNDERSCORE == 95
LBRACE == 123
RBRACE == 125
CH_0 == 48
CH_9 == 57
CH_A == 65
CH_F == 70
CH_a == 97
CH_f == 102
CH_n == 110
CH_u == 117

(***************************************************************************)
(* Bounds of the model.                                                    *)
(***************************************************************************)
MaxNodes == 5            \* nodes (containers and scalars) of a generated document
MaxFiles == 2            \* documents given to one run of main()

(***************************************************************************)
(* <ctype.h> and <stdlib.h> helpers.                                       *)
(***************************************************************************)
isdigit(c) == c >= CH_0 /\ c <= CH_9

isxdigit(c) == isdigit(c) \/ (c >= CH_A /\ c <= CH_F) \/ (c >= CH_a /\ c <= CH_f)

tolower(c) == IF c >= CH_A /\ c <= 90 THEN c + 32 ELSE c

\* value of one hexadecimal digit, as strtoul(.., 16) reads it
HexVal(c) == IF isdigit(c) THEN c - CH_0 ELSE tolower(c) - CH_a + 10

\* the C string held in a buffer: the bytes before the first NUL
CStr(s) ==
    IF \E i \in 1..Len(s) : s[i] = NUL
    THEN SubSeq(s, 1, (CHOOSE i \in 1..Len(s) : s[i] = NUL /\ \A j \in 1..(i-1) : s[j] # NUL) - 1)
    ELSE s

\* snprintf(buf, 30, "%lu", n)
RECURSIVE Dec(_)
Dec(n) == IF n < 10 THEN <<CH_0 + n>> ELSE Dec(n \div 10) \o <<CH_0 + (n % 10)>>

\* strtoul(s, &q, 10) for a string made of digits only
RECURSIVE DecValue(_)
DecValue(s) ==
    IF s = <<>> THEN 0 ELSE 10 * DecValue(SubSeq(s, 1, Len(s) - 1)) + (s[Len(s)] - CH_0)

AllDigits(s) == \A i \in 1..Len(s) : isdigit(s[i])

(***************************************************************************)
(* Documents.  A JSON value is <<"s", token bytes>> (a scalar),            *)
(* <<"a", elements>> (an array) or <<"o", members>> (an object, each       *)
(* member <<key bytes, value>>).  Ser is its text; `ws` is the whitespace  *)
(* written after each ',' and ':'.  An input that is not the text of a     *)
(* JSON value carries the tree RawTree.                                    *)
(***************************************************************************)
RawTree == <<"raw", <<>>>>

Scalar(v) == <<"s", v>>

Array(es) == <<"a", es>>

Object(ms) == <<"o", ms>>

RECURSIVE Ser(_, _), SerElems(_, _), SerMembers(_, _)
Ser(t, ws) ==
    CASE t[1] = "s" -> t[2]
      [] t[1] = "a" -> <<LBRACKET>> \o SerElems(t[2], ws) \o <<RBRACKET>>
      [] t[1] = "o" -> <<LBRACE>> \o SerMembers(t[2], ws) \o <<RBRACE>>

SerElems(es, ws) ==
    IF es = <<>> THEN <<>>
    ELSE Ser(es[1], ws) \o
         (IF Len(es) > 1 THEN <<COMMA>> \o ws \o SerElems(Tail(es), ws) ELSE <<>>)

SerMembers(ms, ws) ==
    IF ms = <<>> THEN <<>>
    ELSE <<QUOTE>> \o ms[1][1] \o <<QUOTE, COLON>> \o ws \o Ser(ms[1][2], ws) \o
         (IF Len(ms) > 1 THEN <<COMMA>> \o ws \o SerMembers(Tail(ms), ws) ELSE <<>>)

\* The leaf scalars of a value in document order: for each its resource path
\* ('/' followed by the '/'-joined keys and indices on the route from the root),
\* the offset of its first byte in Ser(t, ws), its token and its place `par`:
\* "root", "member" (value of an object member), "element" (of an array) or
\* "plain" (element of an array of scalars only that is itself the root or the
\* value of a member).  `numeric` selects decimal indices; otherwise every
\* index is the placeholder '#'.
IndexComponent(i, numeric) == IF numeric THEN Dec(i) ELSE <<HASH>>

RECURSIVE Leaves(_, _, _, _, _, _), LeavesElems(_, _, _, _, _, _, _), LeavesMembers(_, _, _, _, _)
Leaves(t, p, off, ws, numeric, par) ==
    CASE t[1] = "s" -> << [path |-> p, off |-> off, val |-> t[2], par |-> par] >>
      [] t[1] = "a" ->
            LeavesElems(t[2], p, off + 1, 0, ws, numeric,
                        IF par # "element" /\ \A i \in 1..Len(t[2]) : t[2][i][1] = "s"
                        THEN "plain" ELSE "element")
      [] t[1] = "o" -> LeavesMembers(t[2], p, off + 1, ws, numeric)

LeavesElems(es, p, off, i, ws, numeric, par) ==
    IF es = <<>> THEN <<>>
    ELSE Leaves(es[1], p \o <<SLASH>> \o IndexComponent(i, numeric), off, ws, numeric, par) \o
         LeavesElems(Tail(es), p, off + Len(Ser(es[1], ws)) + 1 + Len(ws), i + 1, ws,
                     numeric, par)

LeavesMembers(ms, p, off, ws, numeric) ==
    IF ms = <<>> THEN <<>>
    ELSE LET voff == off + Len(ms[1][1]) + 3 + Len(ws)
         IN  Leaves(ms[1][2], p \o <<SLASH>> \o ms[1][1], voff, ws, numeric, "member") \o
             LeavesMembers(Tail(ms), p, voff + Len(Ser(ms[1][2], ws)) + 1 + Len(ws), ws, numeric)

\* Generated documents: every value with at most MaxNodes nodes built from the
\* scalar 1, the keys "a" and "0" (distinct within one object) and non-empty
\* arrays and objects.
GenKeys == { <<CH_a>>, <<CH_0>> }

GenScalars == { Scalar(<<CH_0 + 1>>) }

RECURSIVE TreesOfSize(_), ForestsOfSize(_), MembersOfSize(_, _)
TreesOfSize(n) ==
    IF n = 1 THEN GenScalars
    ELSE { Array(f) : f \in ForestsOfSize(n - 1) } \cup
         { Object(m) : m \in MembersOfSize(n - 1, GenKeys) }

ForestsOfSize(n) ==
    UNION { { <<t>> \o f : t \in TreesOfSize(k),
                          f \in (IF k = n THEN { <<>> } ELSE ForestsOfSize(n - k)) }
            : k \in 1..n }

MembersOfSize(n, keys) ==
    UNION { { << <<key, t>> >> \o m : t \in TreesOfSize(k),
                          m \in (IF k = n THEN { <<>> }
                                 ELSE MembersOfSize(n - k, keys \ {key})) }
            : key \in keys, k \in 1..n }

GenTrees == UNION { TreesOfSize(n) : n \in 1..MaxNodes }

(***************************************************************************)
(* The state of the program.                                               *)
(***************************************************************************)
VARIABLES
    cfg,        \* the option globals after getopt and the build's width of long
    argv,       \* the non-option arguments: documents, or lists of documents with -f
    sigs,       \* SIGINT/SIGTERM signals the environment has still to deliver
    terminate,  \* the flag set by sigterm()
    optind,     \* main: index of the argument being processed
    fp,         \* main, -f: is the current list file open
    line,       \* main, -f: number of the next line fgets() returns from the list
    pc,         \* "main", "read" (per-byte loop), after the loop "cancel" (the flag
                \* ended it) or "close" (the end of input did), "exit", "abort"
    exitcode,   \* value returned by main
    results,    \* the calls of process_json so far: return value, output file left
                \* on disk, was the loop ended by the flag
    infile,     \* process_json: the document being converted
    pos,        \* process_json: offset of the next input byte
    gzin,       \* process_json: input stream, "null", "open" or "closed"
    outfp,      \* process_json: primary output stream (outfp or gzout)
    outexists,  \* is the output file of the current document on disk
    out,        \* bytes written to the primary output of the current document
    slicefp,    \* process_json: slice stream, "null" or "open"
    slicefile,  \* bytes of the slice file of the current document
    recs,       \* the "<path> = " prefixes written to the primary output: the path,
                \* the offset `pos` of the input byte that started the value, was
                \* a slice opened, and the offsets in `out` of the record's first
                \* byte (`at`) and of the newline that ended it (`end`, 0 if none)
    in_quotes, in_value, last_comma, protect, in_unicode, unicode, idx,
    name,       \* key accumulator; its length is namelen
    path,       \* current resource path; its length is pathlen
    valueout, linenum

mainVars == <<cfg, argv, sigs, terminate, optind, fp, line, pc, exitcode, results>>

docVars == <<infile, pos, gzin, outfp, outexists>>

ioVars == <<out, slicefp, slicefile, recs, valueout>>

parseVars == <<in_quotes, in_value, last_comma, protect, in_unicode, unicode, idx,
               name, path, linenum>>

vars == <<mainVars, docVars, ioVars, parseVars>>

input == infile.bytes

(***************************************************************************)
(* str_unescape, find_last_slash, path_append, path_remove, str_append,    *)
(* is_slice.                                                               *)
(***************************************************************************)
\* Unescapable with every byte value turned back
Unescapable_AnyByte(n) == TRUE

Unescapable(n) ==
    (n >= 32 /\ n <= 64) \/ (n >= 91 /\ n <= 96) \/ (n >= 123 /\ n <= 126)

\* The loop of str_unescape at offset p of s, with `score` and `any_unescaped`
\* and the bytes q stored so far (len is their number).  The result is
\* [ok |-> FALSE] for NULL, else the string returned.
RECURSIVE UnescapeLoop(_, _, _, _, _, _)
UnescapeLoop(s, buflen, p, score, any, q) ==
    LET c == IF p <= Len(s) THEN s[p] ELSE NUL
        done(r) == [ok |-> TRUE, s |-> IF any THEN <<LBRACE>> \o r \o <<RBRACE>> ELSE r]
        next(sc, an, r) ==
            IF c = NUL
            THEN [ok |-> TRUE, s |-> IF an THEN <<LBRACE>> \o r \o <<RBRACE>> ELSE r]
            ELSE UnescapeLoop(s, buflen, p + 1, sc, an, r)
        literal ==
            IF Len(q) + score + 1 >= buflen THEN [ok |-> FALSE]
            ELSE next(0, any, q \o <<UNDERSCORE>>
                               \o (IF score = 2 THEN <<s[p - 1]>> ELSE <<>>)
                               \o (IF c # NUL THEN <<c>> ELSE <<>>))
    IN  IF Len(q) >= buflen
        THEN (IF c # NUL THEN [ok |-> FALSE] ELSE done(q))
        ELSE IF c = UNDERSCORE THEN next(1, any, q)
        ELSE IF score # 0
             THEN IF isxdigit(c)
                  THEN IF score = 1 THEN next(2, any, q)
                       ELSE LET n == 16 * HexVal(s[p - 1]) + HexVal(c)
                            IN  IF Unescapable(n) THEN next(0, TRUE, Append(q, n))
                                ELSE literal
                  ELSE literal
             ELSE IF c = NUL THEN next(score, any, q)
             ELSE \* bytes outside an escape are copied one per iteration while
                  \* len<buflen: the run up to the next '_' is copied at once
                  LET stops == {i \in p..Len(s) : s[i] = UNDERSCORE}
                      e == IF stops = {} THEN Len(s) + 1
                           ELSE CHOOSE i \in stops : \A j \in stops : i <= j
                      n == IF e - p <= buflen - Len(q) THEN e - p ELSE buflen - Len(q)
                  IN  UnescapeLoop(s, buflen, p + n, score, any, q \o SubSeq(s, p, p + n - 1))

str_unescape(s, buflen) == UnescapeLoop(s, buflen - 3, 1, 0, FALSE, <<>>)

\* find_last_slash scans s once keeping `escaped`: with -e a '{' sets it, a '}'
\* clears it, so before offset p it is set exactly when a '{' precedes p with
\* no '}' after it.
Escaped(s, p) ==
    /\ cfg.unescape
    /\ \E i \in 1..(p - 1) : s[i] = LBRACE /\ \A j \in (i + 1)..(p - 1) : s[j] # RBRACE

\* offset of the last '/' read while not escaped, 0 for NULL
find_last_slash(s) ==
    LET found == {p \in 1..Len(s) : s[p] = SLASH /\ ~Escaped(s, p)}
    IN  IF found = {} THEN 0 ELSE CHOOSE p \in found : \A q \in found : q <= p

\* PathTooLong with the test off by one: a path of MAXBUF bytes is accepted
PathTooLong_AtLimit(pathlen, len) == pathlen + len + 1 > MAXBUF

\* Is the path with one more component of len bytes too long for path[MAXBUF]
PathTooLong(pathlen, len) == pathlen + len + 2 > MAXBUF

\* path_append(s, path, &pathlen): [err, path]; err = 2 stands for strlen(NULL),
\* reached when str_unescape returns NULL.
path_append(s, p) ==
    LET u == IF cfg.unescape THEN str_unescape(s, MAXBUF) ELSE [ok |-> TRUE, s |-> s]
    IN  IF ~u.ok THEN [err |-> 2, path |-> p]
        ELSE IF Len(u.s) = 0 THEN [err |-> 0, path |-> p]
        ELSE IF PathTooLong(Len(p), Len(u.s)) THEN [err |-> 1, path |-> p]
        ELSE [err |-> 0, path |-> p \o <<SLASH>> \o u.s]

\* The index recorded by path_remove for the removed component (index strings
\* of the model have at most 9 digits, so strtoul never overflows).
RemovedIndex(comp, i) ==
    IF cfg.gen_index
    THEN IF comp # <<>> /\ isdigit(comp[1]) /\ AllDigits(comp) THEN DecValue(comp)
         ELSE ULONG_MAX
    ELSE IF comp = <<HASH>> THEN 1 ELSE i

\* path_remove(path, &pathlen, idx): [path, idx]; withidx is FALSE for idx = NULL
path_remove(p, withidx, i) ==
    LET q == find_last_slash(p)
    IN  IF q = 0 THEN [path |-> <<>>, idx |-> i]
        ELSE [path |-> SubSeq(p, 1, q - 1),
              idx |-> IF withidx THEN RemovedIndex(SubSeq(p, q + 1, Len(p)), i) ELSE i]

\* str_append(ch, s, &len): [err, s]
str_append(ch, s) ==
    IF Len(s) = MAXBUF - 1 THEN [err |-> 1, s |-> s]
    ELSE [err |-> 0, s |-> Append(s, ch % 256)]

is_slice(s) == \E i \in 1..Len(cfg.slices) : cfg.slices[i] = s

(***************************************************************************)
(* The output macros.  They act on the record of the output state.        *)
(***************************************************************************)
IO == [valueout |-> valueout, out |-> out, recs |-> recs,
       slicefp |-> slicefp, slicefile |-> slicefile]

SetIO(io) ==
    /\ valueout' = io.valueout
    /\ out' = io.out
    /\ recs' = io.recs
    /\ slicefp' = io.slicefp
    /\ slicefile' = io.slicefile

RecordPrefix(p, ch) == p \o <<SPACE, EQUALS, SPACE, ch>>

\* start_slice(ch): fopen(slicefile, "w") truncates the file
start_slice(io, p, ch) ==
    IF Len(cfg.slices) > 0 /\ is_slice(p)
    THEN [io EXCEPT !.slicefp = "open", !.slicefile = RecordPrefix(p, ch)]
    ELSE io

stop_slice(io) ==
    IF io.slicefp = "open"
    THEN [io EXCEPT !.slicefile = Append(@, NL), !.slicefp = "null"]
    ELSE io

write_slice(io, ch) ==
    IF io.slicefp = "open" THEN [io EXCEPT !.slicefile = Append(@, ch)] ELSE io

putvalue(io, p, ch) ==
    IF io.valueout
    THEN [write_slice(io, ch) EXCEPT !.out = Append(@, ch)]
    ELSE LET s == start_slice([io EXCEPT !.valueout = TRUE], p, ch)
         IN  [s EXCEPT !.out = @ \o RecordPrefix(p, ch),
                       !.recs = Append(@, [path |-> p, pos |-> pos,
                                           sliced |-> s.slicefp = "open",
                                           at |-> Len(io.out) + 1, end |-> 0])]

\* "end of value" of the ',' '}' ']' cases
end_value(io) ==
    IF io.valueout
    THEN [stop_slice([io EXCEPT !.out = Append(@, NL),
                                !.recs[Len(io.recs)].end = Len(io.out) + 1])
          EXCEPT !.valueout = FALSE]
    ELSE io

\* structural_line written whatever the option and the path
structural_line_Always(io, p) == [io EXCEPT !.out = @ \o p \o <<NL>>]

\* the structural line of '{' and '['
structural_line(io, p) ==
    IF cfg.terminals /\ Len(p) # 0 THEN [io EXCEPT !.out = @ \o p \o <<NL>>] ELSE io

\* continuation without the quote that closes the line before it
continuation_Unclosed(io, p) ==
    [io EXCEPT !.out = @ \o <<NL>> \o p \o <<SPACE, DOT, EQUALS, SPACE, QUOTE>>]

\* the continuation record written for a newline with -p
continuation(io, p) ==
    [io EXCEPT !.out = @ \o <<QUOTE, NL>> \o p \o <<SPACE, DOT, EQUALS, SPACE, QUOTE>>]

(***************************************************************************)
(* process_json: entry, return, and the per-byte loop.                     *)
(***************************************************************************)
\* Return with a main that notes the failure and goes on with the next document
Return_NextDocument(rc, exists) ==
    /\ results' = Append(results, [rc |-> rc, kept |-> exists, cancelled |-> pc = "cancel"])
    /\ pc' = "main"
    /\ exitcode' = IF rc # 0 THEN 1 ELSE exitcode
    /\ optind' = IF cfg.filelist THEN optind ELSE optind + 1

\* return rc to main, which returns 1 itself when rc is not 0
Return(rc, exists) ==
    /\ results' = Append(results, [rc |-> rc, kept |-> exists, cancelled |-> pc = "cancel"])
    /\ IF rc # 0
       THEN pc' = "exit" /\ exitcode' = 1 /\ optind' = optind
       ELSE /\ pc' = "main"
            /\ exitcode' = exitcode
            /\ optind' = IF cfg.filelist THEN optind ELSE optind + 1

\* process_json(f) up to its loop: open the input, derive and test the output
\* name, open the output.  f.env is what the file system answers: "noent" (the
\* input cannot be opened), "newer" (the output exists and is newer), else the
\* streams open.
process_json(f) ==
    /\ infile' = f
    /\ pos' = 1
    /\ in_quotes' = FALSE /\ in_value' = 0 /\ last_comma' = FALSE /\ protect' = FALSE
    /\ in_unicode' = 0 /\ unicode' = 0 /\ idx' = ULONG_MAX
    /\ name' = <<>> /\ path' = <<>> /\ valueout' = FALSE
    /\ out' = <<>> /\ recs' = <<>> /\ slicefp' = "null" /\ slicefile' = <<>>
    /\ IF f.env = "noent"
       THEN /\ gzin' = "null" /\ outfp' = "null" /\ outexists' = FALSE
            /\ linenum' = linenum
            /\ Return(1, FALSE)
       ELSE IF ~cfg.to_stdout /\ ~cfg.force /\ f.env = "newer"
       THEN /\ gzin' = "open" /\ outfp' = "null" /\ outexists' = TRUE
            /\ linenum' = linenum
            /\ Return(0, TRUE)
       ELSE /\ gzin' = "open" /\ outfp' = "open" /\ outexists' = ~cfg.to_stdout
            /\ linenum' = 1
            /\ pc' = "read"
            /\ UNCHANGED <<exitcode, results, optind>>

Reading == pc = "read" /\ ~terminate /\ pos <= Len(input)

ch == input[pos]

\* the loop goes on with the next byte
Continue ==
    /\ pos' = pos + 1
    /\ UNCHANGED <<pc, exitcode, results, optind>>

\* "return 1" from inside the loop
Fail ==
    /\ pos' = pos + 1
    /\ Return(1, outexists)

Frame == UNCHANGED <<cfg, argv, sigs, terminate, fp, line, infile, gzin, outfp, outexists>>

Whitespace ==
    /\ Reading /\ ~in_quotes /\ ch \in {SPACE, TAB, CR}
    /\ last_comma' = FALSE
    /\ Continue /\ Frame
    /\ UNCHANGED <<ioVars, in_quotes, in_value, protect, in_unicode, unicode, idx,
                   name, path, linenum>>

Newline ==
    /\ Reading /\ ~in_quotes /\ ch = NL
    /\ linenum' = linenum + 1
    /\ last_comma' = FALSE
    /\ Continue /\ Frame
    /\ UNCHANGED <<ioVars, in_quotes, in_value, protect, in_unicode, unicode, idx,
                   name, path>>

BeginObject ==
    /\ Reading /\ ~in_quotes /\ ch = LBRACE
    /\ SetIO(structural_line(IO, path))
    /\ in_value' = 0
    /\ last_comma' = FALSE
    /\ Continue /\ Frame
    /\ UNCHANGED <<in_quotes, protect, in_unicode, unicode, idx, name, path, linenum>>

BeginArray ==
    /\ Reading /\ ~in_quotes /\ ch = LBRACKET
    /\ SetIO(structural_line(IO, path))
    /\ in_value' = 2
    /\ LET r == IF last_comma THEN [err |-> 0, path |-> path]
                ELSE path_append(IF cfg.gen_index THEN <<CH_0>> ELSE <<HASH>>, path)
       IN  /\ path' = r.path
           /\ IF r.err = 0 THEN last_comma' = FALSE /\ Continue
              ELSE last_comma' = last_comma /\ Fail
    /\ Frame
    /\ UNCHANGED <<in_quotes, protect, in_unicode, unicode, idx, name, linenum>>

Colon ==
    /\ Reading /\ ~in_quotes /\ ch = COLON
    /\ in_value' = 1
    /\ LET r == path_append(CStr(name), path)
       IN  /\ path' = r.path
           /\ IF r.err = 0
              THEN name' = <<>> /\ last_comma' = FALSE /\ Continue
              ELSE IF r.err = 1
              THEN name' = name /\ last_comma' = last_comma /\ Fail
              ELSE /\ name' = name /\ last_comma' = last_comma
                   /\ pos' = pos + 1 /\ pc' = "abort"
                   /\ UNCHANGED <<exitcode, results, optind>>
    /\ Frame
    /\ UNCHANGED <<ioVars, in_quotes, protect, in_unicode, unicode, idx, linenum>>

\* the index component appended by ',' after an element
NextIndex(i) == IF cfg.gen_index THEN Dec(i + 1) ELSE <<HASH>>

Comma ==
    /\ Reading /\ ~in_quotes /\ ch = COMMA
    /\ SetIO(end_value(IO))
    /\ LET r1 == IF in_value = 2 THEN path_remove(path, TRUE, idx)
                 ELSE [path |-> path, idx |-> idx]
           r2 == IF in_value = 1
                 THEN [err |-> 0, path |-> path_remove(r1.path, FALSE, r1.idx).path]
                 ELSE IF r1.idx # ULONG_MAX THEN path_append(NextIndex(r1.idx), r1.path)
                 ELSE [err |-> 0, path |-> r1.path]
       IN  /\ path' = r2.path
           /\ IF r2.err = 0
              THEN /\ in_value' = IF in_value < 2 THEN 0 ELSE in_value
                   /\ idx' = ULONG_MAX
                   /\ name' = <<>>
                   /\ last_comma' = TRUE
                   /\ Continue
              ELSE /\ in_value' = in_value
                   /\ idx' = IF cfg.gen_index THEN r1.idx + 1 ELSE r1.idx
                   /\ name' = name
                   /\ last_comma' = last_comma
                   /\ Fail
    /\ Frame
    /\ UNCHANGED <<in_quotes, protect, in_unicode, unicode, linenum>>

EndContainer ==
    /\ Reading /\ ~in_quotes /\ ch \in {RBRACE, RBRACKET}
    /\ SetIO(end_value(IO))
    /\ LET r1 == IF in_value # 0 THEN path_remove(path, FALSE, idx)
                 ELSE [path |-> path, idx |-> idx]
           r2 == path_remove(r1.path, ch # RBRACKET, r1.idx)
       IN  /\ path' = r2.path
           /\ idx' = IF ch = RBRACKET THEN ULONG_MAX ELSE r2.idx
    /\ in_value' = 0
    /\ name' = <<>>
    /\ last_comma' = FALSE
    /\ Continue /\ Frame
    /\ UNCHANGED <<in_quotes, protect, in_unicode, unicode, linenum>>

OpenQuote ==
    /\ Reading /\ ~in_quotes /\ ch = QUOTE
    /\ in_quotes' = TRUE
    /\ SetIO(IF in_value # 0 THEN putvalue(IO, path, ch) ELSE IO)
    /\ last_comma' = FALSE
    /\ Continue /\ Frame
    /\ UNCHANGED <<in_value, protect, in_unicode, unicode, idx, name, path, linenum>>

\* the default case: a byte of an unquoted value or key
Structural == {SPACE, TAB, CR, NL, LBRACE, LBRACKET, COLON, COMMA, RBRACE, RBRACKET, QUOTE}

OtherByte ==
    /\ Reading /\ ~in_quotes /\ ch \notin Structural
    /\ SetIO(IF in_value # 0 THEN putvalue(IO, path, ch) ELSE IO)
    /\ name' = IF in_value # 0 THEN name ELSE str_append(ch, name).s
    /\ last_comma' = FALSE
    /\ Continue /\ Frame
    /\ UNCHANGED <<in_quotes, in_value, protect, in_unicode, unicode, idx, path, linenum>>

\* CloseQuote taken for every '"', also the one after a backslash
CloseQuote_AnyQuote ==
    /\ Reading /\ in_quotes /\ ch = QUOTE
    /\ in_quotes' = FALSE
    /\ SetIO(IF in_value # 0 THEN putvalue(IO, path, ch) ELSE IO)
    /\ Continue /\ Frame
    /\ UNCHANGED <<in_value, last_comma, protect, in_unicode, unicode, idx, name, path,
                   linenum>>

CloseQuote ==
    /\ Reading /\ in_quotes /\ ~protect /\ ch = QUOTE
    /\ in_quotes' = FALSE
    /\ SetIO(IF in_value # 0 THEN putvalue(IO, path, ch) ELSE IO)
    /\ Continue /\ Frame
    /\ UNCHANGED <<in_value, last_comma, protect, in_unicode, unicode, idx, name, path,
                   linenum>>

UnicodeStart ==
    /\ Reading /\ in_quotes /\ protect /\ ch = CH_u
    /\ in_unicode' = 1
    /\ unicode' = 0
    /\ protect' = FALSE
    /\ Continue /\ Frame
    /\ UNCHANGED <<ioVars, in_quotes, in_value, last_comma, idx, name, path, linenum>>

\* The UTF-8 conversion of a completed \uXXXX escape: [err, bytes], the bytes
\* being the arguments of the str_append calls in order.  `unicode` is a long
\* and 0xd800u an unsigned int: where long is 64 bits wide the difference is
\* signed, where it is 32 bits wide it is unsigned and a negative difference d
\* wraps to d + 2^32, which is not below 0x800 for any 16-bit u.
IsSurrogateTest(u) ==
    IF cfg.lp64 THEN u - 55296 < 2048
    ELSE u - 55296 >= 0 /\ u - 55296 < 2048

utf8(u) ==
    IF u < 128 THEN [err |-> 0, bytes |-> <<u>>]
    ELSE IF u < 2048 THEN [err |-> 0, bytes |-> <<192 + (u \div 64), 128 + (u % 64)>>]
    ELSE IF IsSurrogateTest(u) THEN [err |-> 1, bytes |-> <<>>]
    ELSE IF u < 65536
    THEN [err |-> 0, bytes |-> <<224 + (u \div 4096), 128 + ((u \div 4096) % 64),
                                 128 + ((u \div 64) % 64), 128 + (u % 64)>>]
    ELSE IF u < 1114112
    THEN [err |-> 0, bytes |-> <<240 + (u \div 262144), 128 + ((u \div 4096) % 64),
                                 128 + ((u \div 64) % 64), 128 + (u % 64)>>]
    ELSE [err |-> 1, bytes |-> <<>>]

\* str_append of each byte in turn, the return values ignored
RECURSIVE AppendAll(_, _)
AppendAll(bytes, s) ==
    IF bytes = <<>> THEN s
    ELSE AppendAll(Tail(bytes), str_append(bytes[1], s).s)

\* capacity of the temporary `value` of the unicode case
ValueCap == 4

\* A hexadecimal digit of an escape, or a byte that ends it in error.  When the
\* fourth digit completes a value escape of four bytes, str_append stores the
\* terminating NUL at value[4], outside the array: the run either goes on
\* (nothing live was there) or aborts.
UnicodeDigit ==
    /\ Reading /\ in_quotes /\ ~(~protect /\ ch = QUOTE) /\ ~(protect /\ ch = CH_u)
    /\ in_unicode # 0
    /\ LET c == IF ch >= CH_A /\ ch <= CH_F THEN tolower(ch) ELSE ch
           ishex == (c >= CH_a /\ c <= CH_f) \/ (c >= CH_0 /\ c <= CH_9)
           u == unicode * 16 + HexVal(c)
           r == utf8(u)
           overrun == in_value # 0 /\ Len(r.bytes) + 1 > ValueCap
       IN  IF ~ishex
           THEN /\ unicode' = unicode * 16
                /\ Fail
                /\ UNCHANGED <<ioVars, in_unicode, name>>
           ELSE /\ unicode' = u
                /\ IF in_unicode # 4
                   THEN /\ in_unicode' = in_unicode + 1
                        /\ Continue
                        /\ UNCHANGED <<ioVars, name>>
                   ELSE IF r.err # 0
                   THEN /\ Fail
                        /\ UNCHANGED <<ioVars, in_unicode, name>>
                   ELSE \E outcome \in (IF overrun THEN {"goes on", "aborts"} ELSE {"goes on"}) :
                        /\ in_unicode' = 0
                        /\ name' = IF in_value # 0 THEN name ELSE AppendAll(r.bytes, name)
                        /\ out' = IF in_value # 0
                                  THEN out \o CStr(AppendAll(r.bytes, <<>>)) ELSE out
                        /\ UNCHANGED <<slicefp, slicefile, recs, valueout>>
                        /\ IF outcome = "goes on" THEN Continue
                           ELSE /\ pos' = pos + 1 /\ pc' = "abort"
                                /\ UNCHANGED <<exitcode, results, optind>>
    /\ Frame
    /\ UNCHANGED <<in_quotes, in_value, last_comma, protect, idx, path, linenum>>

Backslash ==
    /\ Reading /\ in_quotes /\ ~protect /\ ch = BACKSLASH /\ in_unicode = 0
    /\ protect' = TRUE
    /\ Continue /\ Frame
    /\ UNCHANGED <<ioVars, in_quotes, in_value, last_comma, in_unicode, unicode, idx,
                   name, path, linenum>>

\* any other byte inside quotes, escaped or not
StringByte ==
    /\ Reading /\ in_quotes /\ ~(~protect /\ ch = QUOTE) /\ ~(protect /\ ch = CH_u)
    /\ in_unicode = 0 /\ ~(~protect /\ ch = BACKSLASH)
    /\ LET asnl == protect /\ cfg.multiline /\ ch = CH_n
           c == IF asnl THEN NL ELSE ch
           slash == protect /\ ~asnl
           io1 == IF slash /\ in_value # 0 THEN putvalue(IO, path, BACKSLASH) ELSE IO
           name1 == IF slash /\ in_value = 0 THEN str_append(BACKSLASH, name).s ELSE name
       IN  IF in_value # 0
           THEN /\ SetIO(IF cfg.multiprefix /\ c = NL THEN continuation(io1, path)
                         ELSE putvalue(io1, path, c))
                /\ name' = name1
           ELSE /\ SetIO(io1)
                /\ name' = str_append(c, name1).s
    /\ protect' = FALSE
    /\ Continue /\ Frame
    /\ UNCHANGED <<in_quotes, in_value, last_comma, in_unicode, unicode, idx, path,
                   linenum>>

\* the loop condition is false: the flag is set or the input is at its end
LoopEnd ==
    /\ pc = "read" /\ (terminate \/ pos > Len(input))
    /\ pc' = IF terminate THEN "cancel" ELSE "close"
    /\ UNCHANGED <<cfg, argv, sigs, terminate, optind, fp, line, exitcode, results,
                   docVars, ioVars, parseVars>>

\* After the loop: close the input, close the output, remove the output when
\* the flag is set.  infile.env "inerr" / "outerr" make the respective close
\* report an error.
CloseStreams ==
    /\ pc \in {"close", "cancel"}
    /\ gzin' = "closed"
    /\ IF infile.env = "inerr"
       THEN /\ UNCHANGED <<outfp, outexists>>
            /\ Return(1, outexists)
       ELSE /\ outfp' = IF cfg.to_stdout THEN outfp ELSE "closed"
            /\ IF infile.env = "outerr"
               THEN /\ UNCHANGED outexists
                    /\ Return(1, outexists)
               ELSE /\ outexists' = IF terminate /\ ~cfg.to_stdout THEN FALSE ELSE outexists
                    /\ Return(0, outexists')
    /\ UNCHANGED <<cfg, argv, sigs, terminate, fp, line, infile, pos, ioVars, parseVars>>

(***************************************************************************)
(* sigterm and main.                                                       *)
(***************************************************************************)
sigterm ==
    /\ sigs > 0 /\ pc \in {"main", "read", "close", "cancel"}
    /\ terminate' = TRUE
    /\ sigs' = sigs - 1
    /\ UNCHANGED <<cfg, argv, optind, fp, line, pc, exitcode, results,
                   docVars, ioVars, parseVars>>

\* the loop over the arguments without -f
MainArgs ==
    /\ pc = "main" /\ ~cfg.filelist
    /\ ~terminate /\ optind <= Len(argv)
    /\ process_json(argv[optind])
    /\ UNCHANGED <<cfg, argv, sigs, terminate, fp, line>>

\* with -f: open the next list file
MainListOpen ==
    /\ pc = "main" /\ cfg.filelist /\ ~fp /\ optind <= Len(argv)
    /\ IF argv[optind].env = "noent"
       THEN pc' = "exit" /\ exitcode' = 1 /\ UNCHANGED <<fp, line>>
       ELSE fp' = TRUE /\ line' = 1 /\ UNCHANGED <<pc, exitcode>>
    /\ UNCHANGED <<cfg, argv, sigs, terminate, optind, results, docVars, ioVars, parseVars>>

\* with -f: read a line of the list; a comment is skipped, else the line names
\* a document
MainListLine ==
    /\ pc = "main" /\ cfg.filelist /\ fp
    /\ ~terminate /\ line <= Len(argv[optind].lines)
    /\ line' = line + 1
    /\ IF argv[optind].lines[line].comment
       THEN UNCHANGED <<pc, exitcode, results, optind, docVars, ioVars, parseVars>>
       ELSE process_json(argv[optind].lines[line].file)
    /\ UNCHANGED <<cfg, argv, sigs, terminate, fp>>

\* with -f: the list is at its end or the flag is set; close it, next argument
MainListClose ==
    /\ pc = "main" /\ cfg.filelist /\ fp
    /\ (terminate \/ line > Len(argv[optind].lines))
    /\ fp' = FALSE
    /\ optind' = optind + 1
    /\ UNCHANGED <<cfg, argv, sigs, terminate, line, pc, exitcode, results,
                   docVars, ioVars, parseVars>>

\* main returns 0
MainDone ==
    /\ pc = "main"
    /\ IF cfg.filelist THEN ~fp /\ optind > Len(argv)
       ELSE terminate \/ optind > Len(argv)
    /\ pc' = "exit"
    /\ exitcode' = 0
    /\ UNCHANGED <<cfg, argv, sigs, terminate, optind, fp, line, results,
                   docVars, ioVars, parseVars>>

(***************************************************************************)
(* The runs checked: options, arguments and signals.                       *)
(***************************************************************************)
\* the option globals as initialised, and a build with a 64-bit long
Defaults ==
    [gen_index |-> TRUE, terminals |-> TRUE, unescape |-> FALSE, multiline |-> FALSE,
     multiprefix |-> FALSE, slices |-> <<>>, filelist |-> FALSE, force |-> FALSE,
     opt_t |-> FALSE, lp64 |-> TRUE]

Unescaping == [Defaults EXCEPT !.unescape = TRUE]

\* what main makes of to_stdout before the first document
Setup(o, args) ==
    [gen_index |-> o.gen_index, terminals |-> o.terminals, unescape |-> o.unescape,
     multiline |-> o.multiline, multiprefix |-> o.multiprefix, slices |-> o.slices,
     filelist |-> o.filelist, force |-> o.force, lp64 |-> o.lp64,
     to_stdout |-> IF o.filelist THEN FALSE
                   ELSE IF Len(args) = 1 /\ Len(o.slices) = 0 THEN o.opt_t
                   ELSE FALSE]

\* a document file: kind "json" is the text of `tree` with plain keys, "escape"
\* the text of a tree whose strings hold escapes, "raw" any other bytes
JsonFile(t, ws) == [kind |-> "json", tree |-> t, bytes |-> Ser(t, ws), ws |-> ws, env |-> "ok"]

EscapeFile(t) == [kind |-> "escape", tree |-> t, bytes |-> Ser(t, <<>>), ws |-> <<>>, env |-> "ok"]

RawFile(b) == [kind |-> "raw", tree |-> RawTree, bytes |-> b, ws |-> <<>>, env |-> "ok"]

WithEnv(f, e) == [f EXCEPT !.env = e]

NoFile == RawFile(<<>>)

Run(o, args, n) == [opts |-> o, argv |-> args, sigs |-> n]

Str(s) == <<QUOTE>> \o s \o <<QUOTE>>

Num(d) == Scalar(<<CH_0 + d>>)

Key(c) == <<CH_a + c>>

\* {"a":{"b":1,"c":[2,3]}}
ExampleTree ==
    Object(<< <<Key(0), Object(<< <<Key(1), Num(1)>>,
                                  <<Key(2), Array(<<Num(2), Num(3)>>)>> >>)>> >>)

\* [10,20,30]
ThreeTree == Array(<<Scalar(<<CH_0 + 1, CH_0>>), Scalar(<<CH_0 + 2, CH_0>>),
                     Scalar(<<CH_0 + 3, CH_0>>)>>)

\* {"a":{},"b":[],"c":"x"}
EmptiesTree ==
    Object(<< <<Key(0), Object(<<>>)>>, <<Key(1), Array(<<>>)>>,
              <<Key(2), Scalar(Str(<<CH_a + 23>>))>> >>)

\* [{"0":{},"b":2},{"c":3}]
DigitKeyTree ==
    Array(<< Object(<< << <<CH_0>>, Object(<<>>) >>, <<Key(1), Num(2)>> >>),
             Object(<< <<Key(2), Num(3)>> >>) >>)

ExtraTrees == {ExampleTree, ThreeTree, EmptiesTree, DigitKeyTree}

StructOpts ==
    {Defaults, [Defaults EXCEPT !.gen_index = FALSE], [Defaults EXCEPT !.terminals = FALSE]}

RunsStruct ==
    {Run(o, <<JsonFile(t, <<>>)>>, 0) : o \in StructOpts, t \in GenTrees \cup ExtraTrees}

\* the same documents with a space or a newline after each ',' and ':'
RunsSpaced ==
    {Run(Defaults, <<JsonFile(t, w)>>, 0) :
        t \in UNION {TreesOfSize(n) : n \in 1..(MaxNodes - 1)} \cup ExtraTrees,
        w \in {<<SPACE>>, <<NL>>}}

\* ["\uXXXX"] and {"\uXXXX":1} for code units around every boundary of the
\* conversion, on builds with a 64-bit and with a 32-bit long
UnicodeDigits ==
    << {CH_0, CH_A + 3, CH_a + 4, CH_f}, {CH_0, CH_0 + 7, CH_0 + 8, CH_f},
       {CH_0, CH_0 + 7, CH_0 + 8, CH_f}, {CH_0, CH_f} >>

UnicodeUnits ==
    { <<a, b, c, d>> : a \in UnicodeDigits[1], b \in UnicodeDigits[2],
                       c \in UnicodeDigits[3], d \in UnicodeDigits[4] }

Escape(u) == <<BACKSLASH, CH_u>> \o u

UnicodeFile(t) == [EscapeFile(t) EXCEPT !.kind = "unicode"]

UnicodeFiles ==
    { UnicodeFile(Array(<<Scalar(Str(Escape(u)))>>)) : u \in UnicodeUnits } \cup
    { UnicodeFile(Object(<< <<Escape(u), Num(1)>> >>)) : u \in UnicodeUnits }

RunsUnicode ==
    { Run([Defaults EXCEPT !.lp64 = w], <<f>>, 0) : w \in BOOLEAN, f \in UnicodeFiles }

\* documents with a slice path /a/b: a plain value, a value with a \u escape,
\* a value with a \n escape (converted with and without -n -p)
SlicePath == <<SLASH>> \o Key(0) \o <<SLASH>> \o Key(1)

SliceTree(v) ==
    Object(<< <<Key(0), Object(<< <<Key(1), Scalar(v)>>, <<Key(2), Num(1)>> >>)>>,
              <<Key(1), Num(2)>> >>)

SliceValues ==
    { Str(<<CH_a + 23>>), <<CH_0 + 7>>,
      Str(<<CH_a + 23>> \o Escape(<<CH_0, CH_0, CH_0 + 4, CH_0 + 1>>) \o <<CH_a + 24>>),
      Str(<<CH_a + 23, BACKSLASH, CH_n, CH_a + 24>>) }

SliceOpts ==
    { [Defaults EXCEPT !.slices = <<SlicePath>>],
      [Defaults EXCEPT !.slices = <<SlicePath>>, !.multiline = TRUE],
      [Defaults EXCEPT !.slices = <<SlicePath>>, !.multiline = TRUE, !.multiprefix = TRUE] }

\* the same documents converted with two slice paths, /a/b and /a/c
SlicePaths == <<SlicePath, <<SLASH>> \o Key(0) \o <<SLASH>> \o Key(2)>>

RunsSlice ==
    { Run(o, <<EscapeFile(SliceTree(v))>>, 0) : o \in SliceOpts, v \in SliceValues } \cup
    { Run([Defaults EXCEPT !.slices = SlicePaths], <<EscapeFile(SliceTree(v))>>, 0) :
        v \in SliceValues }

\* documents with a key or a value about MAXBUF bytes long
Rep(c, n) == [i \in 1..n |-> c]

LongFile(b) == [RawFile(b) EXCEPT !.kind = "long"]

\* {"aaa...a":1}
LongKey(n) == <<LBRACE, QUOTE>> \o Rep(CH_a, n) \o <<QUOTE, COLON, CH_0 + 1, RBRACE>>

\* {"a":{"aaa...a":1}}
LongNested(n) ==
    <<LBRACE, QUOTE, CH_a, QUOTE, COLON>> \o LongKey(n) \o <<RBRACE>>

\* {"aaa...a":[1,1,...]} with m elements
LongArray(n, m) ==
    <<LBRACE, QUOTE>> \o Rep(CH_a, n) \o <<QUOTE, COLON, LBRACKET, CH_0 + 1>>
        \o [i \in 1..(2 * (m - 1)) |-> IF i % 2 = 1 THEN COMMA ELSE CH_0 + 1]
        \o <<RBRACKET, RBRACE>>

\* ["xxx...x"]
LongValue(n) == <<LBRACKET, QUOTE>> \o Rep(CH_a + 23, n) \o <<QUOTE, RBRACKET>>

LongKeyFiles ==
    { LongFile(LongKey(n)) : n \in (MAXBUF - 2)..MAXBUF } \cup
    { LongFile(LongArray(n, 1)) : n \in (MAXBUF - 4)..(MAXBUF - 3) } \cup
    { LongFile(LongArray(MAXBUF - 4, 11)) }

LongNestedFiles == { LongFile(LongNested(n)) : n \in (MAXBUF - 4)..(MAXBUF - 3) }

LongValueFiles == { LongFile(LongValue(MAXBUF + 1)) }

LongFiles == LongKeyFiles \cup LongNestedFiles \cup LongValueFiles

\* {"aaa...a":1} converted with -e, the key filling the buffer of str_unescape
\* and one byte longer
LongUnescapeFiles == { LongFile(LongKey(n)) : n \in (MAXBUF - 3)..(MAXBUF - 2) }

RunsLong ==
    { Run(Defaults, <<f>>, 0) : f \in LongFiles } \cup
    { Run(Unescaping, <<f>>, 0) : f \in LongUnescapeFiles }

\* runs of MaxFiles documents, as arguments and as a list read with -f, with
\* and without a signal: a good document, one with a surrogate escape, and
\* good ones whose input close fails, whose output close fails, whose output
\* is newer
GoodFile == JsonFile(Array(<<Num(1)>>), <<>>)

SurrogateFile ==
    UnicodeFile(Array(<<Scalar(Str(Escape(<<CH_a + 3, CH_0 + 8, CH_0, CH_0>>)))>>))

MultiFiles ==
    { GoodFile, SurrogateFile, WithEnv(GoodFile, "inerr"), WithEnv(GoodFile, "outerr"),
      WithEnv(GoodFile, "newer"), WithEnv(GoodFile, "noent") }

RECURSIVE SeqsOf(_, _)
SeqsOf(S, n) == IF n = 0 THEN { <<>> } ELSE { <<x>> \o q : x \in S, q \in SeqsOf(S, n - 1) }

ListLine(f) == [comment |-> FALSE, file |-> f]

CommentLine == [comment |-> TRUE, file |-> NoFile]

ListFile(ls) == [env |-> "ok", lines |-> ls]

\* the documents of q as two lists: a comment and all but the last, then the last
AsLists(q) ==
    << ListFile(<<CommentLine>> \o [i \in 1..(Len(q) - 1) |-> ListLine(q[i])]),
       ListFile(<<ListLine(q[Len(q)])>>) >>

RunsMulti ==
    { Run(Defaults, q, n) : q \in SeqsOf(MultiFiles, MaxFiles), n \in {0, 1} } \cup
    { Run([Defaults EXCEPT !.filelist = TRUE], AsLists(q), n) :
          q \in SeqsOf(MultiFiles, MaxFiles), n \in {0, 1} } \cup
    { Run([Defaults EXCEPT !.filelist = TRUE],
          <<[env |-> "noent", lines |-> <<>>]>>, 0),
      Run([Defaults EXCEPT !.opt_t = TRUE], <<GoodFile>>, 1) }

\* documents whose \u escape is cut short: by the closing quote, by a byte that
\* is no hexadecimal digit, by a backslash
MalformedFile(b) == [RawFile(b) EXCEPT !.kind = "malformed"]

\* ["\u00","41"]   ["\u0g"]   ["\u0\n"]   {"\u00":1,"41":2}
MalformedFiles ==
    { MalformedFile(<<LBRACKET, QUOTE, BACKSLASH, CH_u, CH_0, CH_0, QUOTE, COMMA,
                      QUOTE, CH_0 + 4, CH_0 + 1, QUOTE, RBRACKET>>),
      MalformedFile(<<LBRACKET, QUOTE, BACKSLASH, CH_u, CH_0, CH_a + 6, QUOTE, RBRACKET>>),
      MalformedFile(<<LBRACKET, QUOTE, BACKSLASH, CH_u, CH_0, BACKSLASH, CH_n, QUOTE,
                      RBRACKET>>),
      MalformedFile(<<LBRACE, QUOTE, BACKSLASH, CH_u, CH_0, CH_0, QUOTE, COLON, CH_0 + 1,
                      COMMA, QUOTE, CH_0 + 4, CH_0 + 1, QUOTE, COLON, CH_0 + 2, RBRACE>>) }

RunsMalformed == { Run(Defaults, <<f>>, 0) : f \in MalformedFiles }

\* documents converted with -e.  An input whose key is built from a path
\* component c carries c as <<"component", c>>.
ComponentFile(knd, c, b) == [RawFile(b) EXCEPT !.kind = knd, !.tree = <<"component", c>>]

\* {"k":1,"b":2}
KeyDoc(k) ==
    <<LBRACE>> \o Str(k) \o <<COLON, CH_0 + 1, COMMA>> \o Str(Key(1))
        \o <<COLON, CH_0 + 2, RBRACE>>

\* the bytes of the components that are escaped
ComponentBytes == {CH_a, UNDERSCORE, SLASH, LBRACE, RBRACE, NL, 127, 233}

Components == { <<x>> : x \in ComponentBytes } \cup
              { <<x, y>> : x \in ComponentBytes, y \in ComponentBytes }

HexDigit(n) == IF n < 10 THEN CH_0 + n ELSE CH_a + (n - 10)

isalnum(b) == isdigit(b) \/ (b >= CH_A /\ b <= 90) \/ (b >= CH_a /\ b <= 122)

\* the escaped form of a component: each byte that is no letter and no digit,
\* '_' included, becomes '_' and its two hexadecimal digits
EscapedByte(b) ==
    IF isalnum(b) THEN <<b>> ELSE <<UNDERSCORE, HexDigit(b \div 16), HexDigit(b % 16)>>

RECURSIVE EscapedForm(_)
EscapedForm(c) == IF c = <<>> THEN <<>> ELSE EscapedByte(Head(c)) \o EscapedForm(Tail(c))

EscapedFiles == { ComponentFile("escaped", c, KeyDoc(EscapedForm(c))) : c \in Components }

RunsEscaped == { Run(Unescaping, <<f>>, 0) : f \in EscapedFiles }

\* {"p":{"k":1,"b":2}}
NestedKeyDoc(k) ==
    <<LBRACE>> \o Str(Key(15)) \o <<COLON>> \o KeyDoc(k) \o <<RBRACE>>

\* keys of up to three bytes over '_', a hexadecimal digit that is a letter, one
\* that is not, a byte that is neither, '/', '{' and '}', and the escaped forms
\* of '{', '}', "{/" and "}/"
KeyBytes == {UNDERSCORE, CH_f, CH_0 + 2, CH_a + 6, SLASH, LBRACE, RBRACE}

RawKeys ==
    { <<x>> : x \in KeyBytes } \cup { <<x, y>> : x \in KeyBytes, y \in KeyBytes } \cup
    { <<x, y, z>> : x \in KeyBytes, y \in KeyBytes, z \in KeyBytes } \cup
    { EscapedForm(c) : c \in { <<LBRACE>>, <<RBRACE>>, <<LBRACE, SLASH>>, <<RBRACE, SLASH>> } }

KeyFiles == { ComponentFile("key", k, NestedKeyDoc(k)) : k \in RawKeys }

RunsKey == { Run([Defaults EXCEPT !.unescape = e], <<f>>, 0) : e \in BOOLEAN, f \in KeyFiles }

\* strings of up to three bytes over '\', '"', 'n' and 'x', read as a value,
\* ["..."], and as a key, {"...":1}, without and with -n, -p and -n -p
StringBytes == {BACKSLASH, QUOTE, CH_n, CH_a + 23}

StringBodies ==
    { <<x>> : x \in StringBytes } \cup { <<x, y>> : x \in StringBytes, y \in StringBytes } \cup
    { <<x, y, z>> : x \in StringBytes, y \in StringBytes, z \in StringBytes }

StringFile(b) == [RawFile(b) EXCEPT !.kind = "string"]

StringFiles ==
    { StringFile(<<LBRACKET>> \o Str(b) \o <<RBRACKET>>) : b \in StringBodies } \cup
    { StringFile(<<LBRACE>> \o Str(b) \o <<COLON, CH_0 + 1, RBRACE>>) : b \in StringBodies }

MultilineOpts ==
    { Defaults, [Defaults EXCEPT !.multiline = TRUE], [Defaults EXCEPT !.multiprefix = TRUE],
      [Defaults EXCEPT !.multiline = TRUE, !.multiprefix = TRUE] }

RunsString == { Run(o, <<f>>, 0) : o \in MultilineOpts, f \in StringFiles }

Runs ==
    RunsStruct \cup RunsSpaced \cup RunsUnicode \cup RunsSlice \cup RunsLong \cup RunsMulti
        \cup RunsMalformed \cup RunsEscaped
        \cup RunsKey \cup RunsString

(***************************************************************************)
(* The specification.                                                      *)
(***************************************************************************)
\* the state in which main starts the run r
Start(r) ==
    /\ cfg = Setup(r.opts, r.argv)
    /\ argv = r.argv
    /\ sigs = r.sigs
    /\ terminate = FALSE
    /\ optind = 1 /\ fp = FALSE /\ line = 1
    /\ pc = "main" /\ exitcode = 0 /\ results = <<>>
    /\ infile = NoFile /\ pos = 1
    /\ gzin = "null" /\ outfp = "null" /\ outexists = FALSE
    /\ out = <<>> /\ slicefp = "null" /\ slicefile = <<>> /\ recs = <<>>
    /\ in_quotes = FALSE /\ in_value = 0 /\ last_comma = FALSE /\ protect = FALSE
    /\ in_unicode = 0 /\ unicode = 0 /\ idx = ULONG_MAX
    /\ name = <<>> /\ path = <<>> /\ valueout = FALSE /\ linenum = 0

Init == \E r \in Runs : Start(r)

Next ==
    \/ sigterm
    \/ MainArgs \/ MainListOpen \/ MainListLine \/ MainListClose \/ MainDone
    \/ Whitespace \/ Newline \/ BeginObject \/ BeginArray \/ Colon \/ Comma
    \/ EndContainer \/ OpenQuote \/ OtherByte
    \/ CloseQuote \/ UnicodeStart \/ UnicodeDigit \/ Backslash \/ StringByte
    \/ LoopEnd \/ CloseStreams

Spec == Init /\ [][Next]_vars

(***************************************************************************)
(* The long documents picked up late.  A run of Spec reads a long document *)
(* byte by byte; Late(..) is the state such a run is in when LateAt bytes  *)
(* of the long key or value have been read.  LateSpec has these states as  *)
(* further initial states: each lies on a behaviour of Spec, so LateSpec   *)
(* reaches the states Spec reaches and no others, and reaches the end of   *)
(* a long token within a few steps.                                        *)
(***************************************************************************)
LateAt == MAXBUF - 8

\* inside the quoted string that starts at offset p - LateAt - 1 of f, with the
\* key nm accumulated, or the value record rs begun, under the path pth
LateWith(opts, f, p, nm, pth, o, rs) ==
    /\ cfg = Setup(opts, <<f>>)
    /\ argv = <<f>>
    /\ sigs = 0
    /\ terminate = FALSE
    /\ optind = 1 /\ fp = FALSE /\ line = 1
    /\ pc = "read" /\ exitcode = 0 /\ results = <<>>
    /\ infile = f /\ pos = p
    /\ gzin = "open" /\ outfp = "open" /\ outexists = TRUE
    /\ out = o /\ slicefp = "null" /\ slicefile = <<>> /\ recs = rs
    /\ in_quotes = TRUE /\ in_value = (IF rs = <<>> THEN 0 ELSE 2)
    /\ last_comma = FALSE /\ protect = FALSE
    /\ in_unicode = 0 /\ unicode = 0 /\ idx = ULONG_MAX
    /\ name = nm /\ path = pth /\ valueout = (rs # <<>>) /\ linenum = 1

Late(f, p, nm, pth, o, rs) == LateWith(Defaults, f, p, nm, pth, o, rs)

LateInit ==
    \/ \E f \in LongUnescapeFiles :
            LateWith(Unescaping, f, LateAt + 3, Rep(CH_a, LateAt), <<>>, <<>>, <<>>)
    \/ \E f \in LongKeyFiles :
            Late(f, LateAt + 3, Rep(CH_a, LateAt), <<>>, <<>>, <<>>)
    \/ \E f \in LongNestedFiles :
            Late(f, LateAt + 8, Rep(CH_a, LateAt), <<SLASH, CH_a>>, <<SLASH, CH_a, NL>>, <<>>)
    \/ \E f \in LongValueFiles :
            Late(f, LateAt + 3, <<>>, <<SLASH, CH_0>>,
                 <<SLASH, CH_0, SPACE, EQUALS, SPACE, QUOTE>> \o Rep(CH_a + 23, LateAt),
                 << [path |-> <<SLASH, CH_0>>, pos |-> 2, sliced |-> FALSE,
                     at |-> 1, end |-> 0] >>)

LateSpec == (Init \/ LateInit) /\ [][Next]_vars

(***************************************************************************)
(* The properties checked.                                                 *)
(***************************************************************************)
\* the run is over and its last document was read to the end and converted
Done ==
    /\ pc = "exit" /\ ~terminate
    /\ infile.env = "ok"
    /\ results # <<>> /\ results[Len(results)].rc = 0

\* the leaves of the document, with the paths its nesting gives them
DocLeaves == Leaves(infile.tree, <<>>, 1, infile.ws, cfg.gen_index, "root")

\* the value record started by the input byte at offset off has path p
RecordAt(off, p) == \E i \in 1..Len(recs) : recs[i].pos = off /\ recs[i].path = p

\* the leaf whose first byte is at offset off has path p
LeafAt(off, p) ==
    \E k \in 1..Len(DocLeaves) : DocLeaves[k].off = off /\ DocLeaves[k].path = p

\* C1: with the default configuration (numeric indices, no unescaping) the path
\* of every value record emitted for a well-formed document is '/' followed by
\* the '/'-joined keys and zero-based indices on the route from the root to the
\* leaf the record is written for.
C1_PathsMirrorNesting ==
    (infile.kind = "json" /\ cfg.gen_index /\ ~cfg.unescape)
        => \A i \in 1..Len(recs) : LeafAt(recs[i].pos, recs[i].path)

\* C2: a well-formed document with N leaf scalars gets exactly N value records,
\* whatever whitespace separates its tokens (stated here for the documents
\* whose root is an object or an array).
C2_OneRecordPerLeaf ==
    (Done /\ infile.kind = "json" /\ infile.tree[1] # "s")
        => Len(recs) = Len(DocLeaves)

\* C3: with numeric indices, the elements of an array of scalars that is the
\* root or the value of an object member get records in input order, the i-th
\* with the path of the array followed by '/' and the decimal number i-1.
C3_ScalarArrayIndices ==
    (Done /\ infile.kind = "json" /\ cfg.gen_index)
        => /\ \A k \in 1..Len(DocLeaves) :
                DocLeaves[k].par = "plain" => RecordAt(DocLeaves[k].off, DocLeaves[k].path)
           /\ \A i, j \in 1..Len(recs) : i < j => recs[i].pos < recs[j].pos

\* C4: without numeric indices (gen_index = 0) every element of every array,
\* at any position and any nesting, is rendered with the component '#' where
\* its index would be: the record of a leaf has its route with every index
\* replaced by '#'.
C4_PlaceholderForEveryIndex ==
    (infile.kind = "json" /\ ~cfg.gen_index)
        => \A i \in 1..Len(recs) : LeafAt(recs[i].pos, recs[i].path)

\* the escape of a document ["\uXXXX"] or {"\uXXXX":1}: its digits are the
\* bytes 5..8, EscapeEnd is the offset after the last of them
EscapeEnd == 8 + 1

CodeUnit ==
    4096 * HexVal(input[5]) + 256 * HexVal(input[6]) + 16 * HexVal(input[7])
        + HexVal(input[8])

\* the UTF-8 encoding of a code point below 0x10000
Utf8Encoding(u) ==
    IF u < 128 THEN <<u>>
    ELSE IF u < 2048 THEN <<192 + (u \div 64), 128 + (u % 64)>>
    ELSE <<224 + (u \div 4096), 128 + ((u \div 64) % 64), 128 + (u % 64)>>

\* C5: when the fourth digit of an escape \uXXXX whose code unit is outside
\* 0xD800-0xDFFF has been read, the conversion goes on and the bytes appended
\* to the key, or written to the value, are the UTF-8 encoding of the code
\* point: 1 byte below 0x80, 2 below 0x800, 3 below 0x10000 (stated here for
\* the code units other than 0, the terminator of a C string).
C5_StandardUtf8 ==
    (infile.kind = "unicode" /\ pc # "main" /\ pos = EscapeEnd
            /\ CodeUnit # 0 /\ ~(CodeUnit >= 55296 /\ CodeUnit <= 57343))
        => /\ pc = "read"
           /\ IF infile.tree[1] = "o"
              THEN name = Utf8Encoding(CodeUnit)
              ELSE out = <<SLASH, CH_0, SPACE, EQUALS, SPACE, QUOTE>> \o Utf8Encoding(CodeUnit)

\* C6: with one slice path P the slice file of a converted document holds
\* exactly the bytes of the primary record of P, from its "<path> = " prefix to
\* the newline that ends it, and no record of another path opens a slice.
C6_SliceEqualsRecord ==
    (Done /\ Len(cfg.slices) = 1)
        => LET P == cfg.slices[1]
               S == {i \in 1..Len(recs) : recs[i].path = P}
           IN  /\ \A i \in 1..Len(recs) : recs[i].sliced => i \in S
               /\ IF S = {} THEN slicefile = <<>>
                  ELSE \E i \in S : slicefile = SubSeq(out, recs[i].at, recs[i].end)

\* The call of path_append the next byte makes, if it makes one with a
\* component that renders to at least one byte: the rendered component and the
\* path it is appended to.
AppendCall ==
    LET removed == IF in_value = 2 THEN path_remove(path, TRUE, idx)
                   ELSE [path |-> path, idx |-> idx]
        call == IF ~(Reading /\ ~in_quotes) THEN <<>>
                ELSE IF ch = COLON THEN << [s |-> CStr(name), p |-> path] >>
                ELSE IF ch = LBRACKET /\ ~last_comma
                THEN << [s |-> IF cfg.gen_index THEN <<CH_0>> ELSE <<HASH>>, p |-> path] >>
                ELSE IF ch = COMMA /\ in_value # 1 /\ removed.idx # ULONG_MAX
                THEN << [s |-> NextIndex(removed.idx), p |-> removed.path] >>
                ELSE <<>>
    IN  IF call = <<>> THEN <<>>
        ELSE LET u == IF cfg.unescape THEN str_unescape(call[1].s, MAXBUF)
                      ELSE [ok |-> TRUE, s |-> call[1].s]
             IN  IF u.ok /\ Len(u.s) > 0
                 THEN << [len |-> Len(call[1].p) + 1 + Len(u.s)] >>
                 ELSE <<>>

C8_CancelledOutputRemoved ==
    \A k \in 1..Len(results) :
        (results[k].cancelled /\ ~cfg.to_stdout)
            => /\ ~results[k].kept
               /\ k = Len(results)
               /\ pc \in {"main", "exit"}

\* the documents given to the run
Given ==
    IF cfg.filelist
    THEN LET n(l) == Cardinality({i \in 1..Len(l.lines) : ~l.lines[i].comment})
         IN  n(argv[1]) + (IF Len(argv) > 1 THEN n(argv[2]) ELSE 0)
             + (IF Len(argv) > 2 THEN n(argv[3]) ELSE 0)
    ELSE Len(argv)

KeyOverflow ==
    /\ Reading /\ in_value = 0 /\ Len(name) = MAXBUF - 1
    /\ \/ ~in_quotes /\ ch \notin Structural
       \/ in_quotes /\ in_unicode = 0 /\ ~protect /\ ch \notin {QUOTE, BACKSLASH}

\* the bytes written so far for the value being emitted
OpenValueLen == Len(out) + 1 - (recs[Len(recs)].at + Len(recs[Len(recs)].path) + 3)

\* C10: a key or a scalar value longer than the token limit makes process_json
\* return failure at the byte that exceeds it: no further byte is consumed, and
\* no value of more than MAXBUF bytes is written.
C10_TokenLimitAborts ==
    /\ [](valueout => OpenValueLen <= MAXBUF)
    /\ [][KeyOverflow => pc' = "exit" /\ exitcode' = 1]_vars

\* the step reads the next byte of the input (a step of the environment, such
\* as the delivery of a signal, does not)
ReadsByte == Reading /\ pos' = pos + 1

\* C11: after \u, a byte that is no hexadecimal digit and arrives before four
\* digits were read (a double quote and a backslash included) makes
\* process_json return failure at that byte; string mode is never left with an
\* escape partly accumulated.
C11_PartialEscapeFails ==
    /\ [](pc = "read" /\ in_unicode # 0 => in_quotes)
    /\ [][(ReadsByte /\ in_quotes /\ in_unicode # 0 /\ ~isxdigit(ch))
            => /\ pc' = "exit" /\ exitcode' = 1
               /\ results'[Len(results')].rc = 1]_vars

\* the path component made of the key of a document {"k":1,"b":2}, once its ':' was read
KeyComponent == SubSeq(path, 2, Len(path))

\* the first key of the document (a key without '"')
DocKey ==
    LET e == CHOOSE i \in 3..Len(input) : input[i] = QUOTE /\ \A j \in 3..(i - 1) : input[j] # QUOTE
    IN  SubSeq(input, 3, e - 1)

\* the ':' after the first key of a document of kind knd has just been read
AfterKey(knd) == pc = "read" /\ infile.kind = knd /\ pos = Len(DocKey) + 5

\* s without the braces put around a component in which a byte was decoded
Unwrapped(s) ==
    IF Len(s) >= 2 /\ s[1] = LBRACE /\ s[Len(s)] = RBRACE THEN SubSeq(s, 2, Len(s) - 1) ELSE s

\* C12 as stated: with -e, the component appended for the escaped form of c is
\* c (the braces around it set aside), whatever the bytes of c.
C12_UnescapeInvertsEscape ==
    AfterKey("escaped")
        => Unwrapped(KeyComponent) = infile.tree[2]

\* the bytes that -e turns back: the printable ones that are no letters
Decodable(b) == b \in (32..64) \cup (91..96) \cup (123..126)

RECURSIVE Rendered(_)
Rendered(c) ==
    IF c = <<>> THEN <<>>
    ELSE (IF Decodable(Head(c)) THEN <<Head(c)>> ELSE EscapedByte(Head(c))) \o Rendered(Tail(c))

\* C12 as the code has it: with -e, the component appended for the escaped
\* form of c is c with every escaped byte outside 0x20-0x40, 0x5B-0x60 and
\* 0x7B-0x7E left in its form _XX, and it is put between '{' and '}' when at
\* least one byte was turned back.
C12_UnescapeInvertsPrintable ==
    AfterKey("escaped")
        => LET c == infile.tree[2]
               any == \E i \in 1..Len(c) : ~isalnum(c[i]) /\ Decodable(c[i])
           IN  KeyComponent = IF any THEN <<LBRACE>> \o Rendered(c) \o <<RBRACE>>
                              ELSE Rendered(c)

\* the escaped form of "/" followed by the byte 0x7f has been appended as {/_7f}
C12_Witness ==
    /\ AfterKey("escaped") /\ infile.tree[2] = <<SLASH, 127>>
    /\ path = <<SLASH, LBRACE, SLASH, UNDERSCORE, CH_0 + 7, CH_f, RBRACE>>

\* the next byte is a '{' or a '[' outside a string
ContainerOpens == Reading /\ ~in_quotes /\ ch \in {LBRACE, LBRACKET}

\* C13: the option that displays structural lines changes nothing but the
\* lines it adds.  A step that reads '{' or '[' appends the bare line of the
\* current path, once, when the option is on and the path is not empty, and
\* appends nothing otherwise; it touches no record, and every record written so
\* far starts earlier in the input, so the line precedes the records of the
\* container's contents.  Every other step of the loop appends only bytes of
\* the last value or continuation record, whatever the option.
C13_StructuralLinesOnlyAdded ==
    [][ReadsByte =>
        IF ContainerOpens
        THEN /\ out' = out \o (IF cfg.terminals /\ path # <<>> THEN path \o <<NL>> ELSE <<>>)
             /\ recs' = recs /\ valueout' = valueout
             /\ slicefile' = slicefile /\ slicefp' = slicefp
             /\ \A i \in 1..Len(recs) : recs[i].pos < pos
        ELSE \/ out' = out /\ Len(recs') = Len(recs)
             \/ /\ Len(out') > Len(out) /\ SubSeq(out', 1, Len(out)) = out
                /\ recs' # <<>>
                /\ recs'[Len(recs')].at <= Len(out) + 1
                /\ recs'[Len(recs')].end \in {0, Len(out')}
                /\ SubSeq(recs', 1, Len(recs) - 1) = SubSeq(recs, 1, Len(recs) - 1)]_vars

\* {"a":{"b":1,"c":[2,3]}} has been converted with structural lines: /a and /a/c
\* stand before the records of their contents
C13_Witness ==
    /\ Done /\ cfg.terminals /\ infile.tree = ExampleTree
    /\ out = <<SLASH, CH_a, NL>>
              \o RecordPrefix(<<SLASH, CH_a, SLASH, CH_a + 1>>, CH_0 + 1) \o <<NL>>
              \o <<SLASH, CH_a, SLASH, CH_a + 2, NL>>
              \o RecordPrefix(<<SLASH, CH_a, SLASH, CH_a + 2, SLASH, CH_0>>, CH_0 + 2) \o <<NL>>
              \o RecordPrefix(<<SLASH, CH_a, SLASH, CH_a + 2, SLASH, CH_0 + 1>>, CH_0 + 3)
              \o <<NL>>

\* the document is an array whose elements are all objects
ObjectArray(t) == t[1] = "a" /\ t[2] # <<>> /\ \A i \in 1..Len(t[2]) : t[2][i][1] = "o"

\* offset in the text of the array of the first byte of its k-th element
RECURSIVE ElementOffset(_, _, _)
ElementOffset(es, ws, k) ==
    IF k = 1 THEN 2
    ELSE ElementOffset(es, ws, k - 1) + Len(Ser(es[k - 1], ws)) + 1 + Len(ws)

\* C14: with numeric indices, when the '{' of the k-th object (counted from 0)
\* of an array of objects is about to be read, the path is the path of the
\* array followed by /k, so that the members of that object are written under
\* it: the '}' of the object before restored its index and the ',' appended
\* that index plus one.  Checked for the array that is the document.
C14_ObjectElementsIndexed ==
    (pc = "read" /\ infile.kind = "json" /\ cfg.gen_index /\ ObjectArray(infile.tree))
        => \A k \in 1..Len(infile.tree[2]) :
              pos = ElementOffset(infile.tree[2], infile.ws, k)
                  => path = <<SLASH>> \o Dec(k - 1)

\* the document is an array whose elements are all arrays
ArrayArray(t) == t[1] = "a" /\ t[2] # <<>> /\ \A i \in 1..Len(t[2]) : t[2][i][1] = "a"

\* C15: with numeric indices, an array that is the k-th element (k >= 1,
\* counted from 0) of an array is reached with the path of the outer array
\* followed by /k, and after its '[' its first element has the path .../k/0:
\* the ']' of the inner array before it did not lose the outer index.  Checked
\* for the array that is the document.
C15_InnerArrayKeepsOuterIndex ==
    (pc = "read" /\ infile.kind = "json" /\ cfg.gen_index /\ ArrayArray(infile.tree))
        => \A k \in 2..Len(infile.tree[2]) :
              LET off == ElementOffset(infile.tree[2], infile.ws, k)
                  outer == <<SLASH>> \o Dec(k - 1)
              IN  /\ pos = off => path = outer
                  /\ pos = off + 1 => path = outer \o <<SLASH, CH_0>>

\* offset in the text of the object of the '"' that opens the key of its k-th
\* member
RECURSIVE MemberOffset(_, _, _)
MemberOffset(ms, ws, k) ==
    IF k = 1 THEN 2
    ELSE MemberOffset(ms, ws, k - 1) + Len(ms[k - 1][1]) + 3 + Len(ws)
            + Len(Ser(ms[k - 1][2], ws)) + 1 + Len(ws)

\* C16: the members of one object are written under one parent path: when the
\* key of a member is about to be read, the path is the path of the object,
\* whatever the keys and values of the members before it; no index component
\* has been put in front of the key.  Checked for the object that is the
\* document, whose path is empty.
C16_SiblingsShareParent ==
    (pc = "read" /\ infile.kind = "json" /\ infile.tree[1] = "o")
        => \A k \in 1..Len(infile.tree[2]) :
              pos = MemberOffset(infile.tree[2], infile.ws, k) => path = <<>>

\* C17: when the fourth digit of an escape is read, the document fails with
\* the unicode error exactly when the code unit lies in 0xD800-0xDFFF; every
\* other 16-bit unit is accepted, on every build.
C17_OnlySurrogatesRejected ==
    [][(ReadsByte /\ in_quotes /\ in_unicode = 4 /\ isxdigit(ch))
          => LET u == unicode * 16 + HexVal(ch)
             IN  (pc' = "exit" /\ exitcode' = 1) <=> (u >= 55296 /\ u <= 57343)]_vars

\* C18: a step that reads a space, a tab, a carriage return or a newline
\* outside a string changes nothing of the parse state (path, key, value
\* context, index counter, the flag of the last comma) and writes nothing; a
\* newline adds one to the line counter.
C18_WhitespaceChangesNothing ==
    [][(ReadsByte /\ ~in_quotes /\ ch \in {SPACE, TAB, CR, NL})
          => /\ path' = path /\ name' = name /\ in_value' = in_value
             /\ idx' = idx /\ last_comma' = last_comma
             /\ out' = out
             /\ linenum' = IF ch = NL THEN linenum + 1 ELSE linenum]_vars

\* the path of the object {"k":1,"b":2} in a document {"p":{"k":1,"b":2}}
ParentPath == <<SLASH>> \o Key(15)

\* offset of the ':' after the key k of such a document
KeyColon == Len(infile.tree[2]) + 9

\* C19: path_remove undoes path_append.  In {"p":{"k":1,"b":2}} the key k was
\* appended to /p at its ':'; the ',' after its value removes the last
\* component and the path is /p again, with and without -e, whatever bytes the
\* component holds (a '/', '{' or '}' written in the key or decoded from _2f,
\* _7b, _7d).  Stated here for the conversions with -e of keys in which no '/'
\* is written literally.
C19_RemoveUndoesAppend ==
    [][(ReadsByte /\ infile.kind = "key" /\ pos = KeyColon + 2 /\ ch = COMMA
            /\ cfg.unescape /\ \A i \in 1..Len(infile.tree[2]) : infile.tree[2][i] # SLASH)
          => path' = ParentPath]_vars

\* the key holds an '_' followed by two hexadecimal digits
HasEscapeRun(k) ==
    \E i \in 1..(Len(k) - 2) : k[i] = UNDERSCORE /\ isxdigit(k[i + 1]) /\ isxdigit(k[i + 2])

\* C20: with -e, a key in which no '_' is followed by two hexadecimal digits
\* is appended to the path unchanged: every '_' that does not start an escape
\* is copied with the digit that may follow it, no byte is dropped.
C20_NothingDropped ==
    (pc = "read" /\ infile.kind = "key" /\ cfg.unescape /\ pos = KeyColon + 1
        /\ ~HasEscapeRun(infile.tree[2]))
        => path = ParentPath \o <<SLASH>> \o infile.tree[2]

\* C21: with -e, when str_unescape returns NULL for the key read (its result
\* does not fit the buffer), the ':' ends the document with a failure result:
\* process_json returns 1 to main.
C21_UnescapeOverflowFails ==
    [][(ReadsByte /\ ~in_quotes /\ ch = COLON /\ cfg.unescape
            /\ ~str_unescape(CStr(name), MAXBUF).ok)
          => /\ pc' = "exit" /\ exitcode' = 1
             /\ results'[Len(results')].rc = 1]_vars

\* C22: a document whose loop was ended by the end of its input, the flag
\* being clear at every test of the loop, and whose streams closed without
\* error, has its output file when process_json has returned, also when the
\* signal arrived while the streams were closed.
C22_CompletedOutputKept ==
    \A k \in 1..Len(results) :
        (results[k].rc = 0 /\ ~results[k].cancelled /\ ~cfg.to_stdout) => results[k].kept

\* C24: whenever process_json returns (a result is noted by main), no stream
\* opened for the document is still open: not the input, not the output file,
\* not the slice file.
C24_StreamsClosedOnReturn ==
    [][Len(results') > Len(results)
          => /\ gzin' # "open"
             /\ cfg.to_stdout \/ outfp' # "open"
             /\ slicefp' # "open"]_vars

\* the bytes t stand somewhere in s
Holds(s, t) == \E j \in 0..(Len(s) - Len(t)) : SubSeq(s, j + 1, j + Len(t)) = t

\* C23: when a document converted with several slice paths is done, the slice
\* file holds the record of every value that was written to it: a later
\* record has not erased an earlier one.
C23_EverySliceRecordKept ==
    (Done /\ Len(cfg.slices) > 1)
        => \A i \in 1..Len(recs) :
              recs[i].sliced => Holds(slicefile, SubSeq(out, recs[i].at, recs[i].end))

\* the step reads a byte inside a string after a backslash
AfterBackslash == ReadsByte /\ in_quotes /\ protect

C26_NewlineEscape ==
    [][(AfterBackslash /\ ch = CH_n /\ in_value # 0)
          => /\ recs # <<>> /\ recs[Len(recs)].path = path /\ Len(recs') = Len(recs)
             /\ out' = out \o
                    (IF cfg.multiline /\ cfg.multiprefix
                     THEN <<QUOTE, NL>> \o path \o <<SPACE, DOT, EQUALS, SPACE, QUOTE>>
                     ELSE IF cfg.multiline THEN <<NL>>
                     ELSE <<BACKSLASH, CH_n>>)]_vars

\* ["\nx"] has been converted with -n -p: the value is split in two lines
C26_Witness ==
    /\ Done /\ infile.kind = "string" /\ cfg.multiline /\ cfg.multiprefix
    /\ out = RecordPrefix(<<SLASH, CH_0>>, QUOTE) \o <<QUOTE, NL>>
              \o <<SLASH, CH_0, SPACE, DOT, EQUALS, SPACE, QUOTE, CH_a + 23, QUOTE, NL>>

\* C27: the step that reads the fourth digit of an accepted escape stores the
\* bytes of its conversion and the NUL after them inside the buffer they go
\* to: the temporary of ValueCap bytes in a value, the key accumulator of
\* MAXBUF bytes in a key.  No store lands outside, so the process goes on.
C27_StoresInsideBuffer ==
    [][(ReadsByte /\ in_quotes /\ in_unicode = 4 /\ isxdigit(ch))
          => LET r == utf8(unicode * 16 + HexVal(ch))
             IN  r.err = 0
                    => /\ IF in_value # 0 THEN Len(r.bytes) + 1 <= ValueCap
                          ELSE Len(name') + 1 <= MAXBUF
                       /\ pc' # "abort"]_vars

====
